---- MODULE Spec2Model ----
(***************************************************************************)
(* Model of the dashboard data core of the Octopus tariff frontend:        *)
(* frontend/src/services/api.ts (cost summaries, range filter, chart       *)
(* traces, current/next tariff, fetchAllDashboardData) and                 *)
(* frontend/src/utils/detailGridUtils.ts (getWeekStart and                 *)
(* transformToDetailGridData), and of the App component with its           *)
(* CostSummaryTable (loading, data states, refresh, selected period).      *)
(*                                                                         *)
(* Numbers.  A JavaScript time value (milliseconds since the epoch) is     *)
(* kept at full width as the record [day, ms], standing for                *)
(* day * 86400000 + ms with 0 <= ms < 86400000.  Rates and consumptions    *)
(* are integers; every quotient the code forms is kept exact as a reduced  *)
(* fraction [num, den], with den = 0 for the values a division by zero     *)
(* yields (NaN, Infinity).  Floating-point rounding is not modelled.       *)
(*                                                                         *)
(* Time zone.  The local zone is a fixed offset tz (minutes east of UTC).  *)
(***************************************************************************)
EXTENDS Integers, Sequences, FiniteSets, TLC

VARIABLES
    call,      \* SpecFn: the function under call and its arguments
    ret,       \* SpecFn: the value it returned
    fpc,       \* SpecFn: "ready" before the call, "returned" after it,
               \*         "repeated" after the same call was made again
    again,     \* SpecFn: the value the repeated call returned
    tz,        \* Spec: offset of the local zone, minutes east of UTC
    clock,     \* Spec: the system clock (what new Date() reads)
    upstream,  \* Spec: the batch the upstream endpoint answers with
    upstreamError, \* Spec: the error the upstream request fails with, if it does
    pc,        \* Spec: position of fetchAllDashboardData
    requests,  \* Spec: the axios.get calls issued, in order
    locals,    \* Spec: variables of fetchAllDashboardData live across the await
    result,    \* Spec: outcome of fetchAllDashboardData
    selectedPeriod, \* SpecUi: App's selectedPeriod state
    periodClicks,   \* SpecUi: the row clicks and what onPeriodClick was called with
    loading,        \* SpecUi: App's loading state
    dashboard,      \* SpecUi: App's data states, the ones the then-handler sets
    fetches         \* SpecUi: the fetchAllDashboardData calls of App, in start order

vars == <<call, ret, fpc, again, tz, clock, upstream, upstreamError, pc, requests, locals,
          result, selectedPeriod, periodClicks, loading, dashboard, fetches>>
fnVars == <<call, ret, fpc, again>>
fetchVars == <<tz, clock, upstream, upstreamError, pc, requests, locals, result>>
uiVars == <<selectedPeriod, periodClicks, loading, dashboard, fetches>>

----------------------------------------------------------------------------
(* Bounds of the model *)

\* longest reading list handed to a function or returned by the upstream
MaxLen == 3
\* longest upstream batch of a fetchAllDashboardData run
MaxBatch == 2
\* most row clicks on one mounted CostSummaryTable
MaxClicks == 2
\* most fetchAllDashboardData calls of one mounted App
MaxFetches == 2

----------------------------------------------------------------------------
(* Optional values: null / undefined is <<>>, a present value v is <<v>> *)

None == <<>>
Some(v) == <<v>>

Range(s) == {s[i] : i \in DOMAIN s}

----------------------------------------------------------------------------
(* JavaScript Date: time values and the proleptic Gregorian calendar *)

MsPerSecond == 1000
MsPerMinute == 60 * MsPerSecond
MsPerHour == 60 * MsPerMinute
MsPerDay == 24 * MsPerHour

\* a time value from a day number and a (possibly out-of-range) ms of day
MakeTime(day, ms) == [day |-> day + (ms \div MsPerDay), ms |-> ms % MsPerDay]

\* the time value of an Invalid Date: NaN
InvalidDate == [day |-> 0, ms |-> -1]
IsNaNTime(t) == t.ms < 0

\* comparison of two Dates by their time values (valueOf); a comparison
\* with NaN is false
TLt(a, b) ==
    /\ ~IsNaNTime(a) /\ ~IsNaNTime(b)
    /\ a.day < b.day \/ (a.day = b.day /\ a.ms < b.ms)
TLe(a, b) ==
    /\ ~IsNaNTime(a) /\ ~IsNaNTime(b)
    /\ a.day < b.day \/ (a.day = b.day /\ a.ms <= b.ms)

\* day number (days since 1970-01-01) of a civil date; m is 1..12
DaysFromCivil(y, m, d) ==
    LET yy == IF m <= 2 THEN y - 1 ELSE y
        era == yy \div 400
        yoe == yy - era * 400
        mp == IF m > 2 THEN m - 3 ELSE m + 9
        doy == ((153 * mp + 2) \div 5) + d - 1
        doe == yoe * 365 + (yoe \div 4) - (yoe \div 100) + doy
    IN  era * 146097 + doe - 719468

\* civil date [y, m, d] of a day number; m is 1..12
CivilFromDays(z) ==
    LET zz == z + 719468
        era == zz \div 146097
        doe == zz - era * 146097
        yoe == (doe - (doe \div 1460) + (doe \div 36524) - (doe \div 146096)) \div 365
        doy == doe - (365 * yoe + (yoe \div 4) - (yoe \div 100))
        mp == (5 * doy + 2) \div 153
        d == doy - ((153 * mp + 2) \div 5) + 1
        m == IF mp < 10 THEN mp + 3 ELSE mp - 9
    IN  [y |-> IF m <= 2 THEN yoe + era * 400 + 1 ELSE yoe + era * 400,
         m |-> m, d |-> d]

\* day of the week of a day number, 0 = Sunday .. 6 = Saturday
WeekDay(z) == (z + 4) % 7

\* the wall clock of the local zone at time value t, and back
LocalTime(t, zone) == MakeTime(t.day, t.ms + zone * MsPerMinute)
UtcTime(l, zone) == MakeTime(l.day, l.ms - zone * MsPerMinute)

\* Date.prototype.getDay / getDate / getFullYear / getMonth (month 1..12 here)
getDay(t, zone) == WeekDay(LocalTime(t, zone).day)
getDate(t, zone) == CivilFromDays(LocalTime(t, zone).day).d

\* Date.prototype.setDate(n): day n of the local month, n outside the month
\* rolls into the neighbouring months; the local time of day is kept
setDate(t, n, zone) ==
    LET l == LocalTime(t, zone)
        c == CivilFromDays(l.day)
    IN  UtcTime([day |-> DaysFromCivil(c.y, c.m, 1) + n - 1, ms |-> l.ms], zone)

\* Date.prototype.setHours(h, m, s): the milliseconds are kept
setHours3(t, h, m, s, zone) ==
    LET l == LocalTime(t, zone)
    IN  UtcTime([day |-> l.day,
                 ms |-> h * MsPerHour + m * MsPerMinute + s * MsPerSecond
                        + (l.ms % MsPerSecond)], zone)

\* Date.prototype.setHours(h, m, s, ms)
setHours4(t, h, m, s, msec, zone) ==
    LET l == LocalTime(t, zone)
    IN  UtcTime([day |-> l.day,
                 ms |-> h * MsPerHour + m * MsPerMinute + s * MsPerSecond + msec], zone)

\* new Date(year, month, 1): local midnight of the first of the month
NewDateFirstOfMonth(t, zone) ==
    LET c == CivilFromDays(LocalTime(t, zone).day)
    IN  UtcTime([day |-> DaysFromCivil(c.y, c.m, 1), ms |-> 0], zone)

\* Date.prototype.toISOString(): the UTC fields YYYY-MM-DDTHH:MM:SS.mmmZ
toISOString(t) ==
    LET c == CivilFromDays(t.day)
    IN  [y |-> c.y, m |-> c.m, d |-> c.d,
         hh |-> t.ms \div MsPerHour,
         mi |-> (t.ms % MsPerHour) \div MsPerMinute,
         ss |-> (t.ms % MsPerMinute) \div MsPerSecond,
         mmm |-> t.ms % MsPerSecond]

\* toISOString().split('T')[0]: the UTC calendar date
IsoDatePart(t) == LET c == CivilFromDays(t.day) IN [y |-> c.y, m |-> c.m, d |-> c.d]

\* new Date(valid_from): a reading's valid_from is an ISO-8601 string with a
\* zone designator; the model keeps it as the time value the string denotes,
\* which is NaN (InvalidDate) for a string that does not parse
ParseDate(s) == s

----------------------------------------------------------------------------
(* JavaScript number division, kept exact *)

RECURSIVE Gcd(_, _)
Gcd(a, b) == IF b = 0 THEN a ELSE Gcd(b, a % b)

Abs(a) == IF a < 0 THEN -a ELSE a
Sign(a) == IF a < 0 THEN -1 ELSE IF a > 0 THEN 1 ELSE 0

\* a / b for integers a, b: a reduced fraction; 0/0 is NaN, a/0 is +-Infinity
JsDiv(a, b) ==
    IF b = 0 THEN [num |-> Sign(a), den |-> 0]
    ELSE LET g == Gcd(Abs(a), Abs(b))
         IN  [num |-> (Sign(b) * a) \div g, den |-> Abs(b) \div g]

NaN == [num |-> 0, den |-> 0]
IsFinite(q) == q.den > 0
Zero == [num |-> 0, den |-> 1]

\* a + b, a - b, a * n and a / n on finite fractions (n an integer)
RatAdd(a, b) == JsDiv(a.num * b.den + b.num * a.den, a.den * b.den)
RatSub(a, b) == JsDiv(a.num * b.den - b.num * a.den, a.den * b.den)
RatMulInt(a, n) == JsDiv(a.num * n, a.den)
RatDivInt(a, n) == JsDiv(a.num, a.den * n)

----------------------------------------------------------------------------
(* Helpers over sequences *)

Front(s) == SubSeq(s, 1, Len(s) - 1)

\* Array.prototype.sort with the comparator (a, b) => time(a) - time(b):
\* ascending by time value, equal keys keep their input order (the sort is
\* stable).  keys[i] is the time value of element i; the result lists the
\* input positions in sorted order.
RECURSIVE StablePerm(_, _)
StablePerm(keys, n) ==
    IF n = 0 THEN <<>>
    ELSE LET p == StablePerm(keys, n - 1)
             pos == Cardinality({j \in 1..Len(p) : TLe(keys[p[j]], keys[n])})
         IN  SubSeq(p, 1, pos) \o <<n>> \o SubSeq(p, pos + 1, Len(p))

\* mutant of SortByTime: equal keys come out in reverse input order
SortByTime_TiesReversed(s, keys) ==
    LET n == Len(s)
        rs == [i \in 1..n |-> s[n + 1 - i]]
        rk == [i \in 1..n |-> keys[n + 1 - i]]
        p == StablePerm(rk, n)
    IN  [i \in 1..n |-> rs[p[i]]]

SortByTime(s, keys) ==
    LET p == StablePerm(keys, Len(s)) IN [i \in 1..Len(s) |-> s[p[i]]]

Reverse(s) == [i \in 1..Len(s) |-> s[Len(s) + 1 - i]]

\* Array.prototype.sort with the comparator (a, b) => time(b) - time(a):
\* descending by time value, equal keys keep their input order
SortByTimeDescending(s, keys) == Reverse(SortByTime(Reverse(s), Reverse(keys)))

----------------------------------------------------------------------------
(* services/api.ts: week and month starts *)

\* mutant of getWeekStart: the Sunday case of the day offset is forgotten
getWeekStart_NoSundayCase(date, zone) ==
    LET day == getDay(date, zone)
        diff == getDate(date, zone) - day + 1
    IN  setHours3(setDate(date, diff, zone), 0, 0, 0, zone)

\* getWeekStart of services/api.ts: setHours(0, 0, 0) keeps the milliseconds
getWeekStart(date, zone) ==
    LET day == getDay(date, zone)
        diff == getDate(date, zone) - day + (IF day = 0 THEN -6 ELSE 1)
    IN  setHours3(setDate(date, diff, zone), 0, 0, 0, zone)

\* getWeekStart of utils/detailGridUtils.ts: setHours(0, 0, 0, 0)
getWeekStartGrid(date, zone) ==
    LET day == getDay(date, zone)
        diff == getDate(date, zone) - day + (IF day = 0 THEN -6 ELSE 1)
    IN  setHours4(setDate(date, diff, zone), 0, 0, 0, 0, zone)

getMonthStart(date, zone) ==
    setHours3(NewDateFirstOfMonth(date, zone), 0, 0, 0, zone)

----------------------------------------------------------------------------
(* services/api.ts: calculateCostSummary *)

PencePerPound == 100

\* the forEach loop: running totalCost (pence) and totalConsumption
RECURSIVE CostTotals(_)
CostTotals(data) ==
    IF data = <<>> THEN [totalCost |-> 0, totalConsumption |-> 0]
    ELSE LET acc == CostTotals(Front(data))
             timeInterval == data[Len(data)]
             cost == timeInterval.consumption * timeInterval.value_inc_vat
         IN  [totalCost |-> acc.totalCost + cost,
              totalConsumption |-> acc.totalConsumption + timeInterval.consumption]

\* mutant of AverageCostPerKwh: the division is not guarded
AverageCostPerKwh_NoGuard(totalCost, totalConsumption) ==
    JsDiv(totalCost, totalConsumption)

AverageCostPerKwh(totalCost, totalConsumption) ==
    IF totalConsumption > 0 THEN JsDiv(totalCost, totalConsumption) ELSE Zero

\* mutant of calculateCostSummary: the pence total is returned as pounds
calculateCostSummary_NoPounds(tariffConsumptionData, period) ==
    LET acc == CostTotals(tariffConsumptionData)
    IN  [totalCost |-> JsDiv(acc.totalCost, 1),
         averageCostPerKwh |-> AverageCostPerKwh(acc.totalCost, acc.totalConsumption),
         period |-> period]

RECURSIVE RateTotal(_)
RateTotal(data) ==
    IF data = <<>> THEN 0 ELSE RateTotal(Front(data)) + data[Len(data)].value_inc_vat

\* mutant of calculateCostSummary: the average is the simple mean of the rates
calculateCostSummary_MeanOfRates(tariffConsumptionData, period) ==
    LET acc == CostTotals(tariffConsumptionData)
    IN  [totalCost |-> JsDiv(acc.totalCost, PencePerPound),
         averageCostPerKwh |->
             IF Len(tariffConsumptionData) > 0
             THEN JsDiv(RateTotal(tariffConsumptionData), Len(tariffConsumptionData))
             ELSE Zero,
         period |-> period]

calculateCostSummary(tariffConsumptionData, period) ==
    LET acc == CostTotals(tariffConsumptionData)
    IN  [totalCost |-> JsDiv(acc.totalCost, PencePerPound),
         averageCostPerKwh |-> AverageCostPerKwh(acc.totalCost, acc.totalConsumption),
         period |-> period]

----------------------------------------------------------------------------
(* services/api.ts: filterDataByDateRange *)

\* mutant of InDateRange: the upper bound is exclusive
InDateRange_ExclusiveEnd(item, startDate, endDate) ==
    LET itemDate == ParseDate(item.valid_from)
    IN  TLe(startDate, itemDate) /\ TLt(itemDate, endDate)

InDateRange(item, startDate, endDate) ==
    LET itemDate == ParseDate(item.valid_from)
    IN  TLe(startDate, itemDate) /\ TLe(itemDate, endDate)

\* mutant of filterDataByDateRange: the kept readings are returned sorted
filterDataByDateRange_Sorted(data, startDate, endDate) ==
    LET kept == SelectSeq(data, LAMBDA item : InDateRange(item, startDate, endDate))
    IN  SortByTime(kept, [i \in 1..Len(kept) |-> ParseDate(kept[i].valid_from)])

filterDataByDateRange(data, startDate, endDate) ==
    LET Keep(item) == InDateRange(item, startDate, endDate)
    IN  SelectSeq(data, Keep)

----------------------------------------------------------------------------
(* services/api.ts: createChartData *)

ValidFromKeys(data) == [i \in 1..Len(data) |-> ParseDate(data[i].valid_from)]

\* mutant of SortByValidFrom: the copy is not sorted
SortByValidFrom_NoSort(data) == data

\* [...data].sort(by valid_from): a sorted copy, the argument is not changed
SortByValidFrom(data) == SortByTime(data, ValidFromKeys(data))

\* the reduce step: push the item on the bucket of its dateKey, a new key
\* is appended after the existing ones (property insertion order).  The
\* item's time label is written but never read and is left out.
GroupedItemOf(item) ==
    [tariffRate |-> item.value_inc_vat, consumption |-> item.consumption,
     dateTime |-> ParseDate(item.valid_from)]

\* mutant of GroupStep: the item replaces the bucket of its dateKey
GroupStep_Overwrite(acc, item) ==
    LET dateKey == IsoDatePart(ParseDate(item.valid_from))
        at == {i \in 1..Len(acc) : acc[i].date = dateKey}
    IN  IF at = {}
        THEN Append(acc, [date |-> dateKey, items |-> <<GroupedItemOf(item)>>])
        ELSE [i \in 1..Len(acc) |->
                IF i \in at
                THEN [acc[i] EXCEPT !.items = <<GroupedItemOf(item)>>]
                ELSE acc[i]]

GroupStep(acc, item) ==
    LET dateKey == IsoDatePart(ParseDate(item.valid_from))
        at == {i \in 1..Len(acc) : acc[i].date = dateKey}
    IN  IF at = {}
        THEN Append(acc, [date |-> dateKey, items |-> <<GroupedItemOf(item)>>])
        ELSE [i \in 1..Len(acc) |->
                IF i \in at
                THEN [acc[i] EXCEPT !.items = Append(@, GroupedItemOf(item))]
                ELSE acc[i]]

RECURSIVE GroupByDate(_)
GroupByDate(sortedData) ==
    IF sortedData = <<>> THEN <<>>
    ELSE GroupStep(GroupByDate(Front(sortedData)), sortedData[Len(sortedData)])

\* items.sort((a, b) => a.dateTime - b.dateTime)
SortItems(items) == SortByTime(items, [i \in 1..Len(items) |-> items[i].dateTime])

tariffColors == <<"#E3E342", "#8F8F10", "#D2D690">>
consumptionColors == <<"#75DB0D", "#67A626", "#6B8F46">>

\* an object literal {} : no property at all
EmptyObject == [type |-> "undefined"]
IsEmptyObject(trace) == trace.type = "undefined"

TariffTrace(entry, index) ==
    LET items == SortItems(entry.items)
    IN  [x |-> [i \in 1..Len(items) |-> items[i].dateTime],
         y |-> [i \in 1..Len(items) |-> items[i].tariffRate],
         type |-> "scattergl",
         mode |-> "lines+markers",
         name |-> [date |-> entry.date, suffix |-> "price"],
         color |-> tariffColors[(index % Len(tariffColors)) + 1]]

\* items.some(item => item.consumption): some consumption is truthy (nonzero)
SomeConsumption(items) == \E i \in 1..Len(items) : items[i].consumption # 0

ConsumptionTrace(entry, index) ==
    LET items == SortItems(entry.items)
    IN  IF SomeConsumption(items)
        THEN [x |-> [i \in 1..Len(items) |-> items[i].dateTime],
              y |-> [i \in 1..Len(items) |-> items[i].consumption],
              type |-> "bar",
              name |-> [date |-> entry.date, suffix |-> "consumption"],
              yaxis |-> "y2",
              color |-> consumptionColors[(index % Len(tariffColors)) + 1]]
        ELSE EmptyObject

\* mutant of createChartData: the readings are grouped in the order given
createChartData_Unsorted(tariffConsumptionData) ==
    LET grouped == GroupByDate(tariffConsumptionData)
        tariffTraces == [k \in 1..Len(grouped) |-> TariffTrace(grouped[k], k - 1)]
        consumptionTraces == [k \in 1..Len(grouped) |-> ConsumptionTrace(grouped[k], k - 1)]
    IN  tariffTraces \o consumptionTraces

createChartData(tariffConsumptionData) ==
    LET sortedData == SortByValidFrom(tariffConsumptionData)
        grouped == GroupByDate(sortedData)
        tariffTraces == [k \in 1..Len(grouped) |-> TariffTrace(grouped[k], k - 1)]
        consumptionTraces == [k \in 1..Len(grouped) |-> ConsumptionTrace(grouped[k], k - 1)]
    IN  tariffTraces \o consumptionTraces

----------------------------------------------------------------------------
(* services/api.ts: findCurrentAndNextTariff.  Positions are 1-based here; *)
(* the code's currentIndex = -1 (no current tariff) is 0.                  *)

\* mutant of CurrentIndex: a reading that starts exactly at now has not started
RECURSIVE CurrentIndex_Strict(_, _, _)
CurrentIndex_Strict(sortedData, i, now) ==
    IF i = 0 THEN 0
    ELSE IF TLt(ParseDate(sortedData[i].valid_from), now) THEN i
    ELSE CurrentIndex_Strict(sortedData, i - 1, now)

\* the loop from the end: the last position whose valid_from <= now
RECURSIVE CurrentIndex(_, _, _)
CurrentIndex(sortedData, i, now) ==
    IF i = 0 THEN 0
    ELSE IF TLe(ParseDate(sortedData[i].valid_from), now) THEN i
    ELSE CurrentIndex(sortedData, i - 1, now)

\* the TariffInfo of position i: validUntil is the next valid_from, if any
TariffInfoAt(sortedData, i) ==
    [rate |-> sortedData[i].value_inc_vat,
     validFrom |-> sortedData[i].valid_from,
     validUntil |-> IF i < Len(sortedData) THEN Some(sortedData[i + 1].valid_from)
                    ELSE None]

\* mutant of NextTariff: the bound of the test is one too small
NextTariff_OffByOne(sortedData, currentIndex) ==
    IF currentIndex # 0 /\ currentIndex < Len(sortedData) - 1
    THEN Some(TariffInfoAt(sortedData, currentIndex + 1))
    ELSE None

NextTariff(sortedData, currentIndex) ==
    IF currentIndex # 0 /\ currentIndex < Len(sortedData)
    THEN Some(TariffInfoAt(sortedData, currentIndex + 1))
    ELSE None

findCurrentAndNextTariff(data, now) ==
    IF Len(data) = 0 THEN [currentTariff |-> None, nextTariff |-> None]
    ELSE LET sortedData == SortByValidFrom(data)
             currentIndex == CurrentIndex(sortedData, Len(sortedData), now)
         IN  [currentTariff |-> IF currentIndex # 0
                                THEN Some(TariffInfoAt(sortedData, currentIndex))
                                ELSE None,
              nextTariff |-> NextTariff(sortedData, currentIndex)]

----------------------------------------------------------------------------
(* utils/detailGridUtils.ts: transformToDetailGridData.  The function      *)
(* reads the clock (new Date()); t is that reading and zone the local      *)
(* zone.  period is the selectedPeriod: 'today', 'wtd', 'mtd' or "null".   *)

\* toLocaleDateString('en-GB'): dd/mm/yyyy of the local calendar date
toLocaleDateString(t, zone) ==
    LET c == CivilFromDays(LocalTime(t, zone).day) IN [y |-> c.y, m |-> c.m, d |-> c.d]

\* new Date(getFullYear(), getMonth(), getDate()): local midnight of t's day
NewDateOfLocalDay(t, zone) == UtcTime([day |-> LocalTime(t, zone).day, ms |-> 0], zone)

\* the filter of the selected period; 'mtd' and null keep every reading
GridFilter(mtdData, period, t, zone) ==
    LET todayStart == setHours4(t, 0, 0, 0, 0, zone)
        weekStart == getWeekStartGrid(t, zone)
    IN  IF period = "today"
        THEN SelectSeq(mtdData, LAMBDA item : TLe(todayStart, ParseDate(item.valid_from)))
        ELSE IF period = "wtd"
        THEN SelectSeq(mtdData, LAMBDA item : TLe(weekStart, ParseDate(item.valid_from)))
        ELSE mtdData

\* mutant of IntervalCost: the pence are not converted to pounds
IntervalCost_Pence(item) == JsDiv(item.consumption * item.value_inc_vat, 1)

\* (item.consumption * item.value_inc_vat) / 100
IntervalCost(item) == JsDiv(item.consumption * item.value_inc_vat, PencePerPound)

\* the reduce step: the aggregate of the item's dateKey is created at the
\* end when new, and the item is added to it
GridGroupStep(acc, item, zone) ==
    LET dateTime == ParseDate(item.valid_from)
        dateKey == toLocaleDateString(dateTime, zone)
        fresh == [date |-> dateKey,
                  dateTime |-> NewDateOfLocalDay(dateTime, zone),
                  totalConsumption |-> 0, totalCost |-> Zero,
                  rateSum |-> 0, rateCount |-> 0]
        acc1 == IF \E i \in 1..Len(acc) : acc[i].date = dateKey
                THEN acc ELSE Append(acc, fresh)
    IN  [i \in 1..Len(acc1) |->
            IF acc1[i].date = dateKey
            THEN [acc1[i] EXCEPT
                    !.totalConsumption = @ + item.consumption,
                    !.totalCost = RatAdd(@, IntervalCost(item)),
                    !.rateSum = @ + item.value_inc_vat,
                    !.rateCount = @ + 1]
            ELSE acc1[i]]

RECURSIVE GroupedByDate(_, _)
GroupedByDate(filteredData, zone) ==
    IF filteredData = <<>> THEN <<>>
    ELSE GridGroupStep(GroupedByDate(Front(filteredData), zone),
                       filteredData[Len(filteredData)], zone)

DetailGridRow(data) ==
    LET averageRate == IF data.rateCount > 0
                       THEN JsDiv(data.rateSum, data.rateCount) ELSE Zero
        averageCostPerKwh ==
            IF data.totalConsumption > 0
            THEN RatDivInt(RatMulInt(data.totalCost, PencePerPound), data.totalConsumption)
            ELSE Zero
    IN  [date |-> data.date,
         consumption |-> data.totalConsumption,
         cost |-> data.totalCost,
         averageRate |-> averageRate,
         averageCostPerKwh |-> averageCostPerKwh,
         delta |-> RatSub(averageCostPerKwh, averageRate),
         dateTime |-> data.dateTime]

transformToDetailGridData(mtdData, period, t, zone) ==
    IF Len(mtdData) = 0 THEN <<>>
    ELSE LET groupedByDate == GroupedByDate(GridFilter(mtdData, period, t, zone), zone)
             rows == [k \in 1..Len(groupedByDate) |-> DetailGridRow(groupedByDate[k])]
         IN  SortByTimeDescending(rows, [k \in 1..Len(rows) |-> rows[k].dateTime])

----------------------------------------------------------------------------
(* services/api.ts: fetchAllDashboardData *)

\* toISOString().substring(0, 19): YYYY-MM-DDTHH:MM:SS of the UTC fields
formatDate(datetime) ==
    LET iso == toISOString(datetime)
    IN  [y |-> iso.y, m |-> iso.m, d |-> iso.d, hh |-> iso.hh, mi |-> iso.mi, ss |-> iso.ss]

\* the statements before the await, every new Date() reading the clock t
BeforeAwait(t, zone) ==
    LET chartStartDate == setHours3(t, 0, 0, 0, zone)
        chartEndDate == setHours3(setDate(t, getDate(t, zone) + 1, zone), 23, 59, 59, zone)
        now == t
    IN  [chartStartDate |-> chartStartDate,
         chartEndDate |-> chartEndDate,
         now |-> now,
         monthStart |-> getMonthStart(now, zone),
         weekStart |-> getWeekStart(now, zone)]

RequestOf(l) ==
    [url |-> "/tariff-rates-with-historic-consumption",
     start_datetime |-> formatDate(l.monthStart),
     end_datetime |-> formatDate(l.chartEndDate)]

\* the statements after the await, on the response data, the clock reading t
AfterAwait(l, data, t, zone) ==
    LET mtdData == data
        wtdData == filterDataByDateRange(mtdData, l.weekStart, l.now)
        todayEndDate == setHours4(t, 23, 59, 59, 999, zone)
        todayData == filterDataByDateRange(mtdData, l.chartStartDate, todayEndDate)
        chartDataFiltered == filterDataByDateRange(mtdData, l.chartStartDate, l.chartEndDate)
        tariffs == findCurrentAndNextTariff(chartDataFiltered, t)
    IN  [wtdData |-> wtdData,
         todayEndDate |-> todayEndDate,
         todayData |-> todayData,
         chartDataFiltered |-> chartDataFiltered,
         value |->
            [mtdData |-> mtdData,
             mtdCostSummary |-> calculateCostSummary(mtdData, "MTD"),
             wtdCostSummary |-> calculateCostSummary(wtdData, "WTD"),
             todayCostSummary |-> calculateCostSummary(todayData, "Today"),
             chartData |-> createChartData(chartDataFiltered),
             chartCostSummary |-> calculateCostSummary(chartDataFiltered, "undefined"),
             currentTariff |-> tariffs.currentTariff,
             nextTariff |-> tariffs.nextTariff]]

----------------------------------------------------------------------------
(* Inputs of the function calls *)

\* 2024-01-15, a Monday: the date the repository's tests fix the clock at
TestDay == DaysFromCivil(2024, 1, 15)

Zones == {-300, 0, 60}

HalfHour == 30 * MsPerMinute

\* valid_from values of the readings: three settlement intervals on two days
FnTimes == {MakeTime(TestDay, 0), MakeTime(TestDay, HalfHour), MakeTime(TestDay + 1, 0)}

\* clock values and range ends: on, between, before and after the readings
FnNows == FnTimes \cup {MakeTime(TestDay, -1), MakeTime(TestDay, HalfHour \div 2),
                        MakeTime(TestDay + 1, 12 * MsPerHour)}

Reading(t, rate, consumption) ==
    [valid_from |-> t, value_inc_vat |-> rate, consumption |-> consumption]

CostReadings ==
    {Reading(MakeTime(TestDay, 0), r, c) : r \in {20, 30, 50}, c \in {0, 2, 3, 10}}
    \cup {Reading(MakeTime(TestDay, 0), 20, -2)}

FilterReadings == {Reading(t, 20, c) : t \in FnTimes, c \in {0, 2}}

TariffReadings == {Reading(t, r, 2) : t \in FnTimes, r \in {20, 30}}

ChartReadings ==
    {Reading(t, 20, c) : t \in FnTimes \cup {MakeTime(TestDay + 1, HalfHour)}, c \in {0, 2}}

Periods == {"MTD", "undefined"}

\* readings of the detail grid: the Sunday before the test day, the test day
\* at 00:00 and at 23:30 UTC (the next local day east of UTC)
GridReadings ==
    {Reading(MakeTime(TestDay - 1, 12 * MsPerHour), 20, 2),
     Reading(MakeTime(TestDay, 0), 20, 3),
     Reading(MakeTime(TestDay, 0), 30, 0),
     Reading(MakeTime(TestDay, 23 * MsPerHour + HalfHour), 30, 1),
     Reading(MakeTime(TestDay, 23 * MsPerHour + HalfHour), 50, 3),
     Reading(MakeTime(TestDay + 1, 12 * MsPerHour), 20, 7)}

GridNows == {MakeTime(TestDay, 12 * MsPerHour), MakeTime(TestDay + 1, 12 * MsPerHour)}

PeriodFilters == {"today", "wtd", "mtd", "null"}

\* days around a month end in a leap year, around a year end, and the test day
WeekStartDays ==
    (DaysFromCivil(2024, 2, 24) .. DaysFromCivil(2024, 3, 4))
    \cup (DaysFromCivil(2024, 12, 29) .. DaysFromCivil(2025, 1, 6))
    \cup {TestDay}

TimesOfDay == {0, 500, 12 * MsPerHour + 30 * MsPerMinute + 15 * MsPerSecond + 250,
               MsPerDay - 1}

\* the calls: a function of the module and its arguments
IsCall(c) ==
    \/ \E k \in 0..MaxLen : \E d \in [1..k -> CostReadings] : \E p \in Periods :
          c = [fn |-> "calculateCostSummary", data |-> d, period |-> p]
    \/ \E k \in 0..MaxLen : \E d \in [1..k -> FilterReadings] : \E a \in FnNows, b \in FnNows :
          c = [fn |-> "filterDataByDateRange", data |-> d, startDate |-> a, endDate |-> b]
    \/ \E k \in 0..MaxLen : \E d \in [1..k -> ChartReadings] :
          c = [fn |-> "createChartData", data |-> d]
    \/ \E k \in 0..MaxLen : \E d \in [1..k -> TariffReadings] : \E n \in FnNows :
          c = [fn |-> "findCurrentAndNextTariff", data |-> d, now |-> n]
    \/ \E k \in 0..MaxLen : \E d \in [1..k -> GridReadings] :
          \E p \in PeriodFilters, n \in GridNows, z \in Zones :
             c = [fn |-> "transformToDetailGridData", data |-> d,
                  selectedPeriod |-> p, now |-> n, zone |-> z]
    \/ \E f \in {"getWeekStart", "getWeekStartGrid"} :
          \E d \in WeekStartDays, t \in TimesOfDay, z \in Zones :
             c = [fn |-> f, date |-> MakeTime(d, t), zone |-> z]

----------------------------------------------------------------------------
(* SpecFn: each function applied once to each input *)

FetchIdle ==
    /\ tz = 0
    /\ clock = MakeTime(TestDay, 0)
    /\ upstream = <<>>
    /\ upstreamError = None
    /\ pc = "off"
    /\ requests = <<>>
    /\ locals = None
    /\ result = None

\* no CostSummaryTable is mounted
UiIdle ==
    /\ selectedPeriod = "off"
    /\ periodClicks = <<>>
    /\ loading = FALSE
    /\ dashboard = None
    /\ fetches = <<>>

InitFn ==
    /\ IsCall(call)
    /\ ret = None
    /\ fpc = "ready"
    /\ again = None
    /\ FetchIdle
    /\ UiIdle

\* mutant of ArgumentAfter: the functions that sort do it in place
ArgumentAfter_SortInPlace(fn, data) ==
    IF fn \in {"createChartData", "findCurrentAndNextTariff"}
    THEN SortByValidFrom(data) ELSE data

\* the caller's reading list after the call of fn: forEach, filter and reduce
\* only read it, and the sorts are on the copy [...data]
ArgumentAfter(fn, data) == data

\* the arguments as the caller sees them after the call
CallAfter(c) ==
    IF "data" \in DOMAIN c THEN [c EXCEPT !.data = ArgumentAfter(c.fn, @)] ELSE c

Return(fn, value) ==
    /\ fpc = "ready"
    /\ call.fn = fn
    /\ ret' = value
    /\ call' = CallAfter(call)
    /\ fpc' = "returned"
    /\ UNCHANGED <<again, fetchVars, uiVars>>

CallCalculateCostSummary ==
    /\ call.fn = "calculateCostSummary"
    /\ Return("calculateCostSummary", calculateCostSummary(call.data, call.period))

CallFilterDataByDateRange ==
    /\ call.fn = "filterDataByDateRange"
    /\ Return("filterDataByDateRange",
              filterDataByDateRange(call.data, call.startDate, call.endDate))

CallCreateChartData ==
    /\ call.fn = "createChartData"
    /\ Return("createChartData", createChartData(call.data))

CallFindCurrentAndNextTariff ==
    /\ call.fn = "findCurrentAndNextTariff"
    /\ Return("findCurrentAndNextTariff", findCurrentAndNextTariff(call.data, call.now))

CallGetWeekStart ==
    /\ call.fn = "getWeekStart"
    /\ Return("getWeekStart", getWeekStart(call.date, call.zone))

CallGetWeekStartGrid ==
    /\ call.fn = "getWeekStartGrid"
    /\ Return("getWeekStartGrid", getWeekStartGrid(call.date, call.zone))

CallTransformToDetailGridData ==
    /\ call.fn = "transformToDetailGridData"
    /\ Return("transformToDetailGridData",
              transformToDetailGridData(call.data, call.selectedPeriod,
                                        call.now, call.zone))

\* the value of the call c
Apply(c) ==
    CASE c.fn = "calculateCostSummary" -> calculateCostSummary(c.data, c.period)
      [] c.fn = "filterDataByDateRange" ->
            filterDataByDateRange(c.data, c.startDate, c.endDate)
      [] c.fn = "createChartData" -> createChartData(c.data)
      [] c.fn = "findCurrentAndNextTariff" -> findCurrentAndNextTariff(c.data, c.now)
      [] c.fn = "getWeekStart" -> getWeekStart(c.date, c.zone)
      [] c.fn = "getWeekStartGrid" -> getWeekStartGrid(c.date, c.zone)
      [] c.fn = "transformToDetailGridData" ->
            transformToDetailGridData(c.data, c.selectedPeriod, c.now, c.zone)

\* the caller makes the same call again, with the arguments as they are now
Repeat ==
    /\ fpc = "returned"
    /\ again' = Some(Apply(call))
    /\ call' = CallAfter(call)
    /\ fpc' = "repeated"
    /\ UNCHANGED <<ret, fetchVars, uiVars>>

NextFn ==
    \/ CallCalculateCostSummary
    \/ CallFilterDataByDateRange
    \/ CallCreateChartData
    \/ CallFindCurrentAndNextTariff
    \/ CallGetWeekStart
    \/ CallGetWeekStartGrid
    \/ CallTransformToDetailGridData
    \/ Repeat

SpecFn == InitFn /\ [][NextFn]_vars

\* the call of fn has returned
Returned(fn) == fpc = "returned" /\ call.fn = fn

----------------------------------------------------------------------------
(* Inputs of the fetchAllDashboardData runs *)

\* local days the clock is on: the test's Monday and the Wednesday after it
ClockDays == {TestDay, TestDay + 2}

\* local times of day of the clock
ClockTimes == {0, 12 * MsPerHour, 12 * MsPerHour + 500, MsPerDay - 1}

ClockValues(zone) == {UtcTime(MakeTime(d, t), zone) : d \in ClockDays, t \in ClockTimes}

\* valid_from of the upstream readings: local midnight of the Monday before,
\* of the Monday, of the Wednesday and of the Thursday, and Wednesday 06:00
BatchTimes(zone) ==
    {UtcTime(MakeTime(d, 0), zone) : d \in {TestDay - 7, TestDay, TestDay + 2, TestDay + 3}}
    \cup {UtcTime(MakeTime(TestDay + 2, 6 * MsPerHour), zone)}

\* the batch may hold a reading whose valid_from does not parse
BatchReadings(zone) ==
    {Reading(t, 20, 2) : t \in BatchTimes(zone)} \cup {Reading(InvalidDate, 20, 2)}

\* what the upstream request fails with when it fails
UpstreamErrors == {"Network error", "Request failed with status code 500"}

----------------------------------------------------------------------------
(* Spec: one run of fetchAllDashboardData against the upstream *)

FnIdle ==
    /\ call = [fn |-> "none"]
    /\ ret = None
    /\ fpc = "off"
    /\ again = None

Init ==
    /\ tz \in Zones
    /\ clock \in ClockValues(tz)
    /\ \E k \in 0..MaxBatch : upstream \in [1..k -> BatchReadings(tz)]
    /\ upstreamError \in {None} \cup {Some(e) : e \in UpstreamErrors}
    /\ pc = "idle"
    /\ requests = <<>>
    /\ locals = None
    /\ result = None
    /\ FnIdle
    /\ UiIdle

\* time passes
Tick ==
    /\ pc \in {"idle", "awaiting"}
    /\ \E t \in ClockValues(tz) : TLt(clock, t) /\ clock' = t
    /\ UNCHANGED <<tz, upstream, upstreamError, pc, requests, locals, result,
                   fnVars, uiVars>>

\* fetchAllDashboardData up to the await: the one axios.get is issued
Begin ==
    /\ pc = "idle"
    /\ LET l == BeforeAwait(clock, tz)
       IN  /\ locals' = Some(l)
           /\ requests' = Append(requests, RequestOf(l))
    /\ pc' = "awaiting"
    /\ UNCHANGED <<tz, clock, upstream, upstreamError, result, fnVars, uiVars>>

\* mutant of Resolve: the week-to-date readings are fetched by a request of
\* their own
Resolve_Refetch ==
    /\ pc = "awaiting"
    /\ upstreamError = None
    /\ LET after == AfterAwait(locals[1], upstream, clock, tz)
       IN  /\ locals' = Some([before |-> locals[1], after |-> after])
           /\ result' = [status |-> "fulfilled", value |-> Some(after.value),
                         error |-> None]
    /\ requests' = Append(requests,
                          [url |-> "/tariff-rates-with-historic-consumption",
                           start_datetime |-> formatDate(locals[1].weekStart),
                           end_datetime |-> formatDate(locals[1].now)])
    /\ pc' = "done"
    /\ UNCHANGED <<tz, clock, upstream, upstreamError, fnVars, uiVars>>

\* the request resolves with the upstream batch; the rest of the function
Resolve ==
    /\ pc = "awaiting"
    /\ upstreamError = None
    /\ LET after == AfterAwait(locals[1], upstream, clock, tz)
       IN  /\ locals' = Some([before |-> locals[1], after |-> after])
           /\ result' = [status |-> "fulfilled", value |-> Some(after.value),
                         error |-> None]
    /\ pc' = "done"
    /\ UNCHANGED <<tz, clock, upstream, upstreamError, requests, fnVars, uiVars>>

\* mutant of Reject: the error is caught and a new one is thrown
Reject_Wrapped ==
    /\ pc = "awaiting"
    /\ upstreamError # None
    /\ result' = [status |-> "rejected", value |-> None,
                  error |-> Some("Failed to fetch dashboard data")]
    /\ pc' = "failed"
    /\ UNCHANGED <<tz, clock, upstream, upstreamError, requests, locals, fnVars, uiVars>>

\* the request rejects: the await throws and the promise rejects with it
Reject ==
    /\ pc = "awaiting"
    /\ upstreamError # None
    /\ result' = [status |-> "rejected", value |-> None, error |-> upstreamError]
    /\ pc' = "failed"
    /\ UNCHANGED <<tz, clock, upstream, upstreamError, requests, locals, fnVars, uiVars>>

Next == Tick \/ Begin \/ Resolve \/ Reject

Spec == Init /\ [][Next]_vars

----------------------------------------------------------------------------
(* App and components/CostSummaryTable.tsx.  App keeps loading, the data   *)
(* states and selectedPeriod (null at first, "null" here); its effect      *)
(* calls fetchData on mount and every 30 minutes; the table gets           *)
(* setSelectedPeriod as onPeriodClick.  The zone and the clock are fixed,  *)
(* what the upstream answers a call with is chosen when the call settles.  *)

\* the rows of the table
PeriodRows == {"today", "wtd", "mtd"}

\* onClick={() => onPeriodClick('today')}: what the row's handler passes
RowClickArgument(row, selected) == row

\* useState's initial values of the data states
InitialSummary == [totalCost |-> Zero, averageCostPerKwh |-> Zero]
InitialDashboard ==
    [chartData |-> <<>>,
     wtdCostSummary |-> InitialSummary,
     mtdCostSummary |-> InitialSummary,
     todayCostSummary |-> InitialSummary,
     currentTariff |-> None,
     nextTariff |-> None,
     mtdData |-> <<>>]

\* the seven setters of the then-handler, applied to allData
DashboardOf(allData) ==
    [chartData |-> allData.chartData,
     wtdCostSummary |-> allData.wtdCostSummary,
     mtdCostSummary |-> allData.mtdCostSummary,
     todayCostSummary |-> allData.todayCostSummary,
     currentTariff |-> allData.currentTariff,
     nextTariff |-> allData.nextTariff,
     mtdData |-> allData.mtdData]

\* the batches the upstream answers with: one reading at the clock's time,
\* at one of two rates
AppBatches == {<<Reading(clock, r, 2)>> : r \in {20, 30}}

\* what fetchAllDashboardData resolves with when the upstream answers batch
AllDashboardDataOf(batch) == AfterAwait(BeforeAwait(clock, tz), batch, clock, tz).value

\* fetchData(): a call of fetchAllDashboardData is started
StartFetch(by) == Append(fetches, [by |-> by, status |-> "pending", value |-> None])

\* the effect after the first render: the initial fetch, and the interval
MountEffect ==
    /\ selectedPeriod # "off"
    /\ fetches = <<>>
    /\ fetches' = StartFetch("mount")
    /\ UNCHANGED <<selectedPeriod, periodClicks, loading, dashboard, fnVars, fetchVars>>

\* the 30-minute interval fires
IntervalFires ==
    /\ fetches # <<>>
    /\ Len(fetches) < MaxFetches
    /\ fetches' = StartFetch("interval")
    /\ UNCHANGED <<selectedPeriod, periodClicks, loading, dashboard, fnVars, fetchVars>>

\* call k resolves: the then-handler
FetchResolves(k) ==
    /\ k \in DOMAIN fetches
    /\ fetches[k].status = "pending"
    /\ \E batch \in AppBatches :
          LET allData == AllDashboardDataOf(batch)
          IN  /\ fetches' = [fetches EXCEPT ![k].status = "fulfilled",
                                            ![k].value = Some(allData)]
              /\ dashboard' = DashboardOf(allData)
    /\ loading' = FALSE
    /\ UNCHANGED <<selectedPeriod, periodClicks, fnVars, fetchVars>>

\* mutant of FetchRejects: the catch-handler leaves loading as it is
FetchRejects_KeepsLoading(k) ==
    /\ k \in DOMAIN fetches
    /\ fetches[k].status = "pending"
    /\ \E e \in UpstreamErrors :
          fetches' = [fetches EXCEPT ![k].status = "rejected", ![k].value = Some(e)]
    /\ UNCHANGED <<loading, dashboard, selectedPeriod, periodClicks, fnVars, fetchVars>>

\* mutant of FetchRejects: the catch-handler resets the data states
FetchRejects_ClearsData(k) ==
    /\ k \in DOMAIN fetches
    /\ fetches[k].status = "pending"
    /\ \E e \in UpstreamErrors :
          fetches' = [fetches EXCEPT ![k].status = "rejected", ![k].value = Some(e)]
    /\ loading' = FALSE
    /\ dashboard' = InitialDashboard
    /\ UNCHANGED <<selectedPeriod, periodClicks, fnVars, fetchVars>>

\* call k rejects: the catch-handler logs the error
FetchRejects(k) ==
    /\ k \in DOMAIN fetches
    /\ fetches[k].status = "pending"
    /\ \E e \in UpstreamErrors :
          fetches' = [fetches EXCEPT ![k].status = "rejected", ![k].value = Some(e)]
    /\ loading' = FALSE
    /\ UNCHANGED <<dashboard, selectedPeriod, periodClicks, fnVars, fetchVars>>

\* a row is clicked (the table is rendered once loading is false): the
\* table calls onPeriodClick, which is App's setSelectedPeriod
ClickRow(row) ==
    /\ selectedPeriod # "off"
    /\ ~loading
    /\ Len(periodClicks) < MaxClicks
    /\ LET arg == RowClickArgument(row, selectedPeriod)
       IN  /\ periodClicks' = Append(periodClicks,
                                     [row |-> row, selected |-> selectedPeriod,
                                      arg |-> arg])
           /\ selectedPeriod' = arg
    /\ UNCHANGED <<loading, dashboard, fetches, fnVars, fetchVars>>

\* App's first render
InitUi ==
    /\ selectedPeriod = "null"
    /\ periodClicks = <<>>
    /\ loading = TRUE
    /\ dashboard = InitialDashboard
    /\ fetches = <<>>
    /\ FnIdle
    /\ FetchIdle

NextUi ==
    \/ MountEffect
    \/ IntervalFires
    \/ \E k \in 1..MaxFetches : FetchResolves(k)
    \/ \E k \in 1..MaxFetches : FetchRejects(k)
    \/ \E row \in PeriodRows : ClickRow(row)

SpecUi == InitUi /\ [][NextUi]_vars

----------------------------------------------------------------------------
(* Vocabulary of the properties *)

RECURSIVE SumSeq(_)
SumSeq(s) == IF s = <<>> THEN 0 ELSE s[1] + SumSeq(Tail(s))

\* the pence each reading costs, and the consumptions, position by position
PenceOf(data) == [i \in 1..Len(data) |-> data[i].consumption * data[i].value_inc_vat]
ConsumptionOf(data) == [i \in 1..Len(data) |-> data[i].consumption]

\* number of occurrences of r in s
Count(s, r) == Cardinality({i \in 1..Len(s) : s[i] = r})

MaxTime(S) == CHOOSE t \in S : \A u \in S : TLe(u, t)
MinTime(S) == CHOOSE t \in S : \A u \in S : TLe(t, u)

ValidFroms(data, I) == {data[i].valid_from : i \in I}

ExampleTwoReadings ==
    <<Reading(MakeTime(TestDay, 0), 20, 2), Reading(MakeTime(TestDay, 0), 30, 3)>>
ExampleOneReading == <<Reading(MakeTime(TestDay, 0), 50, 10)>>

----------------------------------------------------------------------------
(* C1: calculateCostSummary returns totalCost = (sum over the readings of  *)
(* consumption x value_inc_vat) / 100; readings {20p, 2kWh}, {30p, 3kWh}   *)
(* give 1.30 and the single reading {50p, 10kWh} gives 5.00.               *)
C1_TotalCostIsPenceSumOver100 ==
    Returned("calculateCostSummary") =>
        /\ IsFinite(ret.totalCost)
        /\ ret.totalCost.num * 100 = SumSeq(PenceOf(call.data)) * ret.totalCost.den
        /\ (call.data = ExampleTwoReadings => ret.totalCost = [num |-> 13, den |-> 10])
        /\ (call.data = ExampleOneReading => ret.totalCost = [num |-> 5, den |-> 1])

C1_Witness ==
    /\ Returned("calculateCostSummary")
    /\ call.data = ExampleTwoReadings
    /\ ret.totalCost = [num |-> 13, den |-> 10]

(* C2: when the total consumption is > 0, averageCostPerKwh is             *)
(* (sum of consumption x rate) / (sum of consumption), the                 *)
(* consumption-weighted average, not the simple mean of the rates.         *)
C2_AverageIsConsumptionWeighted ==
    (Returned("calculateCostSummary") /\ SumSeq(ConsumptionOf(call.data)) > 0) =>
        /\ IsFinite(ret.averageCostPerKwh)
        /\ ret.averageCostPerKwh.num * SumSeq(ConsumptionOf(call.data))
             = SumSeq(PenceOf(call.data)) * ret.averageCostPerKwh.den

\* 2 kWh at 20p and 3 kWh at 30p: 26 p/kWh, where the mean of the rates is 25
C2_Witness ==
    /\ Returned("calculateCostSummary")
    /\ call.data = ExampleTwoReadings
    /\ ret.averageCostPerKwh = [num |-> 26, den |-> 1]

(* C3: for the empty list and for every list whose total consumption is 0, *)
(* averageCostPerKwh is 0 (and totalCost is 0 for the empty list), and no  *)
(* returned number is NaN or infinite.                                     *)
C3_ZeroConsumptionGivesZeroAverage ==
    (Returned("calculateCostSummary") /\ SumSeq(ConsumptionOf(call.data)) = 0) =>
        /\ ret.averageCostPerKwh = Zero
        /\ IsFinite(ret.totalCost)
        /\ (call.data = <<>> => ret.totalCost = Zero)

\* a non-empty list of total consumption 0
C3_Witness ==
    /\ Returned("calculateCostSummary")
    /\ call.data # <<>>
    /\ SumSeq(ConsumptionOf(call.data)) = 0
    /\ ret.averageCostPerKwh = Zero

----------------------------------------------------------------------------
\* positions of the readings that have started at now
Started(data, now) == {i \in 1..Len(data) : TLe(data[i].valid_from, now)}
\* positions of the readings that start after time t
After(data, t) == {i \in 1..Len(data) : TLt(t, data[i].valid_from)}

(* C4: currentTariff is the reading with the greatest valid_from <= now,   *)
(* whatever the order of the input; its validUntil is the valid_from of    *)
(* the reading that follows it in ascending valid_from order, undefined    *)
(* when it is the last; currentTariff is null when no valid_from <= now.   *)
C4_CurrentIsLatestStarted ==
    Returned("findCurrentAndNextTariff") =>
        LET data == call.data
            started == Started(data, call.now)
        IN  IF started = {} THEN ret.currentTariff = None
            ELSE /\ ret.currentTariff # None
                 /\ LET cur == ret.currentTariff[1]
                        latest == MaxTime(ValidFroms(data, started))
                        later == After(data, latest)
                    IN  /\ cur.validFrom = latest
                        /\ \E i \in started : /\ data[i].valid_from = latest
                                              /\ data[i].value_inc_vat = cur.rate
                        /\ cur.validUntil = IF later = {} THEN None
                                            ELSE Some(MinTime(ValidFroms(data, later)))

\* an input that is not in ascending order, with a current tariff that ends
C4_Witness ==
    /\ Returned("findCurrentAndNextTariff")
    /\ Len(call.data) = 3
    /\ TLt(call.data[2].valid_from, call.data[1].valid_from)
    /\ TLt(call.data[3].valid_from, call.data[2].valid_from)
    /\ ret.currentTariff # None
    /\ ret.currentTariff[1].validUntil # None

(* C5: whenever currentTariff is non-null, nextTariff is the reading       *)
(* immediately after it in ascending valid_from order, its validUntil the  *)
(* valid_from of the reading after that or undefined when there is none;   *)
(* nextTariff is null when currentTariff is the last of the sorted series. *)
C5_NextFollowsCurrent ==
    (Returned("findCurrentAndNextTariff") /\ ret.currentTariff # None) =>
        LET data == call.data
            later == After(data, ret.currentTariff[1].validFrom)
        IN  IF later = {} THEN ret.nextTariff = None
            ELSE /\ ret.nextTariff # None
                 /\ LET nxt == ret.nextTariff[1]
                        first == MinTime(ValidFroms(data, later))
                        atFirst == {i \in later : data[i].valid_from = first}
                        rest == later \ atFirst
                    IN  /\ nxt.validFrom = first
                        /\ \E i \in atFirst : data[i].value_inc_vat = nxt.rate
                        /\ nxt.validUntil =
                             IF Cardinality(later) = 1 THEN None
                             ELSE IF Cardinality(atFirst) > 1 THEN Some(first)
                             ELSE Some(MinTime(ValidFroms(data, rest)))

\* a current tariff followed by two later readings
C5_Witness ==
    /\ Returned("findCurrentAndNextTariff")
    /\ ret.currentTariff # None
    /\ ret.nextTariff # None
    /\ ret.nextTariff[1].validUntil # None
    /\ TLt(ret.nextTariff[1].validFrom, ret.nextTariff[1].validUntil[1])

(* C6: for a non-empty list and now earlier than every valid_from,         *)
(* currentTariff = null and nextTariff = the earliest reading; for the     *)
(* empty list both are null.                                               *)
C6_NextIsEarliestBeforeAll ==
    Returned("findCurrentAndNextTariff") =>
        LET data == call.data
        IN  /\ (data = <<>> => ret.currentTariff = None /\ ret.nextTariff = None)
            /\ (data # <<>> /\ Started(data, call.now) = {}) =>
                   /\ ret.currentTariff = None
                   /\ ret.nextTariff # None
                   /\ ret.nextTariff[1].validFrom
                        = MinTime(ValidFroms(data, 1..Len(data)))

----------------------------------------------------------------------------
(* C7: filterDataByDateRange(data, start, end) returns exactly the         *)
(* readings whose valid_from t satisfies start <= t <= end: a reading      *)
(* stamped at start or at end is kept, every other one outside is dropped. *)
C7_FilterIsClosedInterval ==
    Returned("filterDataByDateRange") =>
        /\ Range(ret) \subseteq Range(call.data)
        /\ \A r \in Range(call.data) :
              Count(ret, r) =
                  IF TLe(call.startDate, r.valid_from) /\ TLe(r.valid_from, call.endDate)
                  THEN Count(call.data, r) ELSE 0

\* one reading kept at start, one kept at end, one dropped
C7_Witness ==
    /\ Returned("filterDataByDateRange")
    /\ TLt(call.startDate, call.endDate)
    /\ \E r \in Range(ret) : r.valid_from = call.startDate
    /\ \E r \in Range(ret) : r.valid_from = call.endDate
    /\ Len(ret) < Len(call.data)

----------------------------------------------------------------------------
\* the latest Monday at or before local day d
MondayOnOrBefore(d) == CHOOSE m \in (d - 6)..d : WeekDay(m) = 1

----------------------------------------------------------------------------
\* the UTC dates of the readings, and those with some nonzero consumption
DatesOf(data) == {IsoDatePart(data[i].valid_from) : i \in 1..Len(data)}
ConsumingDatesOf(data) ==
    {IsoDatePart(data[i].valid_from) : i \in {j \in 1..Len(data) : data[j].consumption # 0}}

(* C10: createChartData returns one price series per date plus one         *)
(* consumption series per date that has a nonzero consumption, and no      *)
(* other entry: a date whose readings all have consumption 0 contributes   *)
(* no consumption entry.                                                   *)
C10_NoEntryForZeroConsumptionDate ==
    Returned("createChartData") =>
        /\ Len(ret) = Cardinality(DatesOf(call.data))
                        + Cardinality(ConsumingDatesOf(call.data))
        /\ \A k \in 1..Len(ret) :
              /\ ret[k].name.date \in DatesOf(call.data)
              /\ ret[k].name.suffix = "consumption"
                    => ret[k].name.date \in ConsumingDatesOf(call.data)

----------------------------------------------------------------------------
\* the local midnight that starts local day d
LocalMidnight(d, zone) == UtcTime(MakeTime(d, 0), zone)

(* C8: for every now, a reading stamped exactly 00:00:00.000 on the Monday *)
(* of now's week is counted in the WTD summary while a reading stamped one *)
(* week before that Monday is not, and a reading stamped exactly           *)
(* 00:00:00.000 today is counted in the Today summary and in the chart     *)
(* window: weekStart and todayStart are exactly midnight and inclusive.    *)
C8_MidnightLowerBoundsInclusive ==
    pc = "done" =>
        LET l == locals[1].before
            a == locals[1].after
            today == LocalTime(l.now, tz).day
            monday == MondayOnOrBefore(today)
        IN  \A r \in Range(upstream) :
              /\ r.valid_from = LocalMidnight(monday, tz) => r \in Range(a.wtdData)
              /\ r.valid_from = LocalMidnight(monday - 7, tz) => r \notin Range(a.wtdData)
              /\ r.valid_from = LocalMidnight(today, tz) =>
                    r \in Range(a.todayData) /\ r \in Range(a.chartDataFiltered)

----------------------------------------------------------------------------
\* calendar dates [y, m, d] in calendar order
DateKeyLt(a, b) ==
    \/ a.y < b.y
    \/ a.y = b.y /\ a.m < b.m
    \/ a.y = b.y /\ a.m = b.m /\ a.d < b.d

(* C11: when the readings fall on N distinct dates and each date has a     *)
(* nonzero consumption, createChartData returns exactly 2N traces: for     *)
(* each date one trace named '<date> price' and one named                  *)
(* '<date> consumption' on the secondary axis 'y2', the dates ascending.   *)
C11_TwoTracesPerDateAscending ==
    (Returned("createChartData")
        /\ ConsumingDatesOf(call.data) = DatesOf(call.data)) =>
        LET N == Cardinality(DatesOf(call.data))
        IN  /\ Len(ret) = 2 * N
            /\ {ret[k].name.date : k \in 1..N} = DatesOf(call.data)
            /\ \A k \in 1..N :
                  /\ ret[k].name.suffix = "price"
                  /\ ret[N + k].name = [date |-> ret[k].name.date,
                                        suffix |-> "consumption"]
                  /\ ret[N + k].yaxis = "y2"
            /\ \A k \in 1..(N - 1) :
                  /\ DateKeyLt(ret[k].name.date, ret[k + 1].name.date)
                  /\ DateKeyLt(ret[N + k].name.date, ret[N + k + 1].name.date)

\* two dates, the later date's reading given first
C11_Witness ==
    /\ Returned("createChartData")
    /\ ConsumingDatesOf(call.data) = DatesOf(call.data)
    /\ Cardinality(DatesOf(call.data)) = 2
    /\ Len(ret) = 4
    /\ TLt(call.data[2].valid_from, call.data[1].valid_from)
    /\ IsoDatePart(call.data[2].valid_from) # IsoDatePart(call.data[1].valid_from)

----------------------------------------------------------------------------
RECURSIVE Flatten(_)
Flatten(ss) == IF ss = <<>> THEN <<>> ELSE ss[1] \o Flatten(Tail(ss))

\* the date buckets createChartData builds for its input, and their contents
BucketsOf(data) == GroupByDate(SortByValidFrom(data))
BucketItems(data) ==
    Flatten([k \in 1..Len(BucketsOf(data)) |-> BucketsOf(data)[k].items])

\* the readings as bucket items, in the order given
InputItems(data) ==
    [i \in 1..Len(data) |->
        [tariffRate |-> data[i].value_inc_vat, consumption |-> data[i].consumption,
         dateTime |-> data[i].valid_from]]

(* C12: grouping by date loses and duplicates nothing: the date buckets    *)
(* of createChartData together contain every input reading exactly once,   *)
(* each under its own date, so the buckets flattened and sorted by         *)
(* timestamp equal the input sorted by timestamp.                          *)
C12_BucketsPartitionTheInput ==
    Returned("createChartData") =>
        LET buckets == BucketsOf(call.data)
            flat == BucketItems(call.data)
            input == InputItems(call.data)
        IN  /\ Len(flat) = Len(input)
            /\ \A r \in Range(input) \cup Range(flat) : Count(flat, r) = Count(input, r)
            /\ \A k \in 1..Len(buckets) : \A j \in 1..Len(buckets) :
                  buckets[k].date = buckets[j].date => k = j
            /\ \A k \in 1..Len(buckets) : \A i \in 1..Len(buckets[k].items) :
                  IsoDatePart(buckets[k].items[i].dateTime) = buckets[k].date
            /\ SortItems(flat) = SortItems(input)

\* three readings, two of them on one date, given latest first
C12_Witness ==
    /\ Returned("createChartData")
    /\ Len(call.data) = 3
    /\ Len(BucketsOf(call.data)) = 2
    /\ \E k \in 1..2 : Len(BucketsOf(call.data)[k].items) = 2
    /\ TLt(call.data[3].valid_from, call.data[2].valid_from)
    /\ TLt(call.data[2].valid_from, call.data[1].valid_from)
    /\ Len(ret) = 4

----------------------------------------------------------------------------
(* C13: every trace createChartData returns has its points in ascending    *)
(* valid_from order whatever the order of the input, and its x list and    *)
(* its y list both have as many elements as the date's bucket has          *)
(* readings.                                                               *)
C13_EveryTraceSortedAndFull ==
    Returned("createChartData") =>
        LET buckets == BucketsOf(call.data)
            N == Len(buckets)
        IN  \A k \in 1..Len(ret) :
              LET size == Len(buckets[((k - 1) % N) + 1].items)
              IN  /\ ~IsEmptyObject(ret[k])
                  /\ Len(ret[k].x) = size
                  /\ Len(ret[k].y) = size
                  /\ \A i \in 1..(size - 1) : TLe(ret[k].x[i], ret[k].x[i + 1])

----------------------------------------------------------------------------
RECURSIVE RatSum(_)
RatSum(s) == IF s = <<>> THEN Zero ELSE RatAdd(s[1], RatSum(Tail(s)))

(* C14: cost is additive across the date partition: for every non-empty    *)
(* reading list, the costs of the rows of transformToDetailGridData for    *)
(* period 'mtd' or null sum to the totalCost calculateCostSummary gives    *)
(* for all the readings, (sum of consumption x rate) / 100.                *)
C14_RowCostsSumToTotalCost ==
    (Returned("transformToDetailGridData")
        /\ call.selectedPeriod \in {"mtd", "null"}
        /\ call.data # <<>>) =>
        /\ RatSum([k \in 1..Len(ret) |-> ret[k].cost])
              = calculateCostSummary(call.data, "MTD").totalCost
        /\ RatSum([k \in 1..Len(ret) |-> ret[k].cost])
              = JsDiv(SumSeq(PenceOf(call.data)), 100)

\* three readings on two local dates, the total 1.70 not a whole number
C14_Witness ==
    /\ Returned("transformToDetailGridData")
    /\ call.selectedPeriod = "null"
    /\ Len(call.data) = 3
    /\ Len(ret) = 2
    /\ \A k \in 1..2 : ret[k].cost.num > 0
    /\ calculateCostSummary(call.data, "MTD").totalCost = [num |-> 17, den |-> 10]

----------------------------------------------------------------------------
\* the views of a fulfilled run
Views == result.value[1]

\* the valid_from values the points of the chart traces stand at
ChartPoints(chartData) ==
    UNION {Range(chartData[k].x) :
             k \in {j \in 1..Len(chartData) : ~IsEmptyObject(chartData[j])}}

(* C15: each call of fetchAllDashboardData issues exactly one upstream     *)
(* request, and the MTD, WTD and Today summaries, the chart data and the   *)
(* current/next tariff are all derived from that one response without a    *)
(* further request.                                                        *)
C15_OneRequestFeedsAllViews ==
    /\ Len(requests) = IF pc = "idle" THEN 0 ELSE 1
    /\ pc = "done" =>
          LET a == locals[1].after
          IN  /\ Views.mtdData = upstream
              /\ Views.mtdCostSummary.totalCost = JsDiv(SumSeq(PenceOf(upstream)), 100)
              /\ Range(a.wtdData) \subseteq Range(upstream)
              /\ Views.wtdCostSummary.totalCost = JsDiv(SumSeq(PenceOf(a.wtdData)), 100)
              /\ Range(a.todayData) \subseteq Range(upstream)
              /\ Views.todayCostSummary.totalCost
                    = JsDiv(SumSeq(PenceOf(a.todayData)), 100)
              /\ ChartPoints(Views.chartData)
                    \subseteq {r.valid_from : r \in Range(upstream)}
              /\ \A t \in Range(Views.currentTariff) \cup Range(Views.nextTariff) :
                    \E r \in Range(upstream) :
                       t.rate = r.value_inc_vat /\ t.validFrom = r.valid_from

\* a fulfilled run whose batch reaches every view
C15_Witness ==
    /\ pc = "done"
    /\ Len(requests) = 1
    /\ Len(upstream) = 2
    /\ locals[1].after.wtdData # <<>>
    /\ locals[1].after.todayData # <<>>
    /\ Views.chartData # <<>>
    /\ Views.currentTariff # None
    /\ Views.nextTariff # None

(* C16: when the upstream request fails, fetchAllDashboardData rejects     *)
(* with that same error, returns no partial result and makes no further    *)
(* request: no retry and no fallback data.                                 *)
C16_FailureIsPropagatedUnchanged ==
    /\ upstreamError # None => pc # "done"
    /\ pc = "failed" =>
          /\ upstreamError # None
          /\ result = [status |-> "rejected", value |-> None, error |-> upstreamError]
          /\ Len(requests) = 1

\* the request for a non-empty batch fails with status 500
C16_Witness ==
    /\ pc = "failed"
    /\ upstream # <<>>
    /\ result.status = "rejected"
    /\ result.error = Some("Request failed with status code 500")

----------------------------------------------------------------------------
(* C17: if a reading of the fetched batch has an unparseable valid_from    *)
(* the whole batch is rejected: fetchAllDashboardData does not fulfil, it  *)
(* returns no summaries, no chart data and no tariff info.                 *)
C17_UnparseableReadingRejectsBatch ==
    (\E r \in Range(upstream) : IsNaNTime(ParseDate(r.valid_from))) =>
        /\ pc # "done"
        /\ result # None => result.status = "rejected" /\ result.value = None

----------------------------------------------------------------------------
\* YYYY-MM-DDTHH:MM:SS of local day d at hh:mi:ss, without offset
LocalStamp(d, hh, mi, ss) ==
    LET c == CivilFromDays(d)
    IN  [y |-> c.y, m |-> c.m, d |-> c.d, hh |-> hh, mi |-> mi, ss |-> ss]

(* C18: for every now and every zone offset the one request carries        *)
(* start_datetime = 00:00:00 on the first day of now's month and           *)
(* end_datetime = 23:59:59 on the day after now, as YYYY-MM-DDTHH:MM:SS    *)
(* without offset: the date parts are the first of the current month and   *)
(* tomorrow's date.                                                        *)
C18_RequestFromMonthStartToTomorrow ==
    pc = "awaiting" =>
        LET today == LocalTime(locals[1].now, tz).day
            c == CivilFromDays(today)
        IN  /\ requests[1].start_datetime
                  = LocalStamp(DaysFromCivil(c.y, c.m, 1), 0, 0, 0)
            /\ requests[1].end_datetime = LocalStamp(today + 1, 23, 59, 59)

----------------------------------------------------------------------------
(* C19: one zone convention is applied to all calendar computations: the   *)
(* date key under which createChartData buckets a reading is the           *)
(* reading's date in the zone in which todayStart and todayEnd are         *)
(* computed, the key transformToDetailGridData uses, so that for every     *)
(* zone offset all readings within [todayStart, todayEnd] fall into one    *)
(* and the same date bucket.                                               *)
C19_OneZoneForAllDateKeys ==
    pc = "done" =>
        LET todayStart == locals[1].before.chartStartDate
            todayEnd == setHours4(todayStart, 23, 59, 59, 999, tz)
            today == {r \in Range(upstream) :
                        TLe(todayStart, r.valid_from) /\ TLe(r.valid_from, todayEnd)}
            chartData == Views.chartData
        IN  \A k \in 1..Len(chartData) :
              ~IsEmptyObject(chartData[k]) =>
                 \A r \in today :
                    /\ r.valid_from \in Range(chartData[k].x)
                          => chartData[k].name.date = toLocaleDateString(r.valid_from, tz)
                    /\ \A q \in today :
                          r.valid_from \in Range(chartData[k].x)
                             <=> q.valid_from \in Range(chartData[k].x)

----------------------------------------------------------------------------
(* C20: in CostSummaryTable, clicking the row of a period that is not      *)
(* selected calls onPeriodClick with that period, and clicking the row of  *)
(* the selected period calls onPeriodClick with null, so that a second     *)
(* click on the same row clears the selection.                             *)
C20_ClickOnSelectedRowClears ==
    /\ \A i \in 1..Len(periodClicks) :
          periodClicks[i].arg = IF periodClicks[i].row = periodClicks[i].selected
                                THEN "null" ELSE periodClicks[i].row
    /\ (periodClicks # <<>>
          /\ periodClicks[Len(periodClicks)].row = periodClicks[Len(periodClicks)].selected)
         => selectedPeriod = "null"

----------------------------------------------------------------------------
\* the j-th smallest element of a set of positions
NthOf(S, j) == CHOOSE i \in S : Cardinality({k \in S : k < i}) = j - 1

(* C22: filterDataByDateRange returns the kept readings in the relative    *)
(* order they have in the input (it does not sort), leaves the input list  *)
(* unchanged, and returns an empty list for an empty input.                *)
C22_FilterKeepsOrderAndInput ==
    [][(call.fn = "filterDataByDateRange" /\ fpc = "ready") =>
          LET data == call.data
              kept == {i \in 1..Len(data) :
                         /\ TLe(call.startDate, data[i].valid_from)
                         /\ TLe(data[i].valid_from, call.endDate)}
          IN  /\ call' = call
              /\ ret' = [j \in 1..Cardinality(kept) |-> data[NthOf(kept, j)]]
              /\ data = <<>> => ret' = <<>>]_vars

\* two readings are kept, the later one first, and a third is dropped
C22_Witness ==
    /\ Returned("filterDataByDateRange")
    /\ Len(call.data) = 3
    /\ Len(ret) = 2
    /\ TLt(ret[2].valid_from, ret[1].valid_from)

----------------------------------------------------------------------------
----------------------------------------------------------------------------
(* C24: when two readings share the valid_from that is the latest one      *)
(* <= now, findCurrentAndNextTariff picks as currentTariff the one that    *)
(* appears later in the input order, for every input order.                *)
C24_LaterOfEqualValidFromWins ==
    (Returned("findCurrentAndNextTariff") /\ Started(call.data, call.now) # {}) =>
        LET data == call.data
            started == Started(data, call.now)
            latest == MaxTime(ValidFroms(data, started))
            last == CHOOSE i \in started :
                       /\ data[i].valid_from = latest
                       /\ \A j \in started : data[j].valid_from = latest => j <= i
        IN  /\ ret.currentTariff # None
            /\ ret.currentTariff[1].rate = data[last].value_inc_vat
            /\ ret.currentTariff[1].validFrom = latest

\* two readings with the latest started valid_from and different rates
C24_Witness ==
    /\ Returned("findCurrentAndNextTariff")
    /\ Len(call.data) = 3
    /\ call.data[1].valid_from = call.data[3].valid_from
    /\ call.data[1].value_inc_vat # call.data[3].value_inc_vat
    /\ TLt(call.data[2].valid_from, call.data[1].valid_from)
    /\ TLe(call.data[1].valid_from, call.now)
    /\ ret.currentTariff[1].rate = call.data[3].value_inc_vat

----------------------------------------------------------------------------
(* C25: every pound total is the sum of the pence amounts consumption x    *)
(* rate over all readings, divided by 100 once at the very end: neither    *)
(* calculateCostSummary nor the per-date cost of transformToDetailGridData *)
(* divides a reading's cost by 100 before adding it, so what is added for  *)
(* a reading is its pence amount.                                          *)
C25_DividedBy100OnceAtTheEnd ==
    /\ Returned("calculateCostSummary") =>
          /\ CostTotals(call.data).totalCost = SumSeq(PenceOf(call.data))
          /\ ret.totalCost = JsDiv(CostTotals(call.data).totalCost, 100)
    /\ Returned("transformToDetailGridData") =>
          \A i \in 1..Len(call.data) :
             IntervalCost(call.data[i]) = JsDiv(PenceOf(call.data)[i], 1)

----------------------------------------------------------------------------
(* C26: whenever findCurrentAndNextTariff returns both tariffs non-null,   *)
(* currentTariff.validFrom <= now < nextTariff.validFrom and               *)
(* currentTariff.validUntil = nextTariff.validFrom: now lies inside the    *)
(* current interval, and the current and next intervals are contiguous.    *)
C26_NowInsideCurrentInterval ==
    (Returned("findCurrentAndNextTariff")
        /\ ret.currentTariff # None /\ ret.nextTariff # None) =>
        LET current == ret.currentTariff[1]
            next == ret.nextTariff[1]
        IN  /\ TLe(current.validFrom, call.now)
            /\ TLt(call.now, next.validFrom)
            /\ current.validUntil = Some(next.validFrom)

\* both tariffs are returned for a list given latest first, now strictly
\* inside the current interval
C26_Witness ==
    /\ Returned("findCurrentAndNextTariff")
    /\ ret.currentTariff # None /\ ret.nextTariff # None
    /\ Len(call.data) = 3
    /\ TLt(call.data[3].valid_from, call.data[1].valid_from)
    /\ TLt(ret.currentTariff[1].validFrom, call.now)
    /\ ret.nextTariff[1].validUntil # None

----------------------------------------------------------------------------
\* the readings fetchAllDashboardData counts in the summary of a period, and
\* that summary
CountedIn(period) ==
    CASE period = "today" -> locals[1].after.todayData
      [] period = "wtd" -> locals[1].after.wtdData
      [] period = "mtd" -> Views.mtdData
SummaryOf(period) ==
    CASE period = "today" -> Views.todayCostSummary
      [] period = "wtd" -> Views.wtdCostSummary
      [] period = "mtd" -> Views.mtdCostSummary

\* the rows of the detail grid for a period, from the fetched batch at the
\* run's now
GridRows(period) ==
    transformToDetailGridData(Views.mtdData, period, locals[1].before.now, tz)

(* C27: for each selected period P of today, wtd and mtd the rows of       *)
(* transformToDetailGridData for P aggregate exactly the readings that     *)
(* fetchAllDashboardData counts in the P cost summary (same batch, same    *)
(* now): the rows' costs sum to the summary's totalCost and the rows'      *)
(* consumption to the consumption behind it.                               *)
C27_GridRowsMatchSummary ==
    (pc = "done" /\ \A r \in Range(upstream) : ~IsNaNTime(r.valid_from)) =>
        \A P \in PeriodRows :
           LET rows == GridRows(P)
           IN  /\ RatSum([k \in 1..Len(rows) |-> rows[k].cost]) = SummaryOf(P).totalCost
               /\ SumSeq([k \in 1..Len(rows) |-> rows[k].consumption])
                     = SumSeq(ConsumptionOf(CountedIn(P)))

----------------------------------------------------------------------------
\* a <= b on finite fractions
RatLe(a, b) == a.num * b.den <= b.num * a.den

(* C30: for every fetched batch and every now, every reading counted in    *)
(* the Today summary is also counted in the WTD summary and every reading  *)
(* counted in the WTD summary is counted in the MTD summary; so with       *)
(* non-negative rates and consumption the Today total is at most the WTD   *)
(* total and the WTD total at most the MTD total.                          *)
C30_TodayWithinWtdWithinMtd ==
    pc = "done" =>
        /\ \A r \in Range(upstream) :
              /\ Count(CountedIn("today"), r) <= Count(CountedIn("wtd"), r)
              /\ Count(CountedIn("wtd"), r) <= Count(CountedIn("mtd"), r)
        /\ RatLe(Views.todayCostSummary.totalCost, Views.wtdCostSummary.totalCost)
        /\ RatLe(Views.wtdCostSummary.totalCost, Views.mtdCostSummary.totalCost)

----------------------------------------------------------------------------
\* the calls of App that are pending, and those started by the mount effect
Pending == {k \in DOMAIN fetches : fetches[k].status = "pending"}
MountCalls == {k \in DOMAIN fetches : fetches[k].by = "mount"}

(* C21 as stated: the App shows the loading state from mount until its     *)
(* first fetchAllDashboardData call settles: while that call is pending    *)
(* loading stays true, as soon as it resolves or rejects loading is false  *)
(* (on rejection too); fetchAllDashboardData is called exactly once on     *)
(* mount.                                                                  *)
C21_LoadingUntilFirstCallSettles ==
    /\ fetches = <<>> => loading
    /\ fetches # <<>> =>
          /\ loading <=> fetches[1].status = "pending"
          /\ MountCalls = {1}

(* C21, amended: loading is true from mount until the first settlement of  *)
(* a fetchAllDashboardData call: while the mount call is pending and no    *)
(* refresh call has settled loading stays true, and as soon as a call      *)
(* resolves or rejects loading is false, on rejection too, and stays       *)
(* false; fetchAllDashboardData is called exactly once on mount.           *)
C21_LoadingUntilFirstSettlement ==
    /\ fetches = <<>> => loading
    /\ fetches # <<>> =>
          /\ loading <=> Pending = DOMAIN fetches
          /\ fetches[1].status # "pending" => ~loading
          /\ MountCalls = {1}

\* the mount call was rejected while no other call had been started
C21_Witness ==
    /\ Len(fetches) = 1
    /\ fetches[1].by = "mount"
    /\ fetches[1].status = "rejected"
    /\ ~loading
    /\ dashboard = InitialDashboard

----------------------------------------------------------------------------
(* C28: when two fetchAllDashboardData calls of App overlap, the dashboard *)
(* state after both have completed is the result of the call that was      *)
(* started last: an earlier-started call's response never overwrites the   *)
(* data of a later-started call, whatever the order of completion.         *)
C28_LastStartedCallWins ==
    (Len(fetches) >= 2 /\ Pending = {}
        /\ fetches[Len(fetches)].status = "fulfilled") =>
        dashboard = DashboardOf(fetches[Len(fetches)].value[1])

----------------------------------------------------------------------------
(* C29: a refresh whose fetch fails leaves the chart data, the Today, WTD  *)
(* and MTD summaries, the current and next tariff, mtdData and the         *)
(* selected period exactly as they were; only a successful fetch replaces  *)
(* the data, all of it together from one response.                         *)
C29_FailedRefreshChangesNothing ==
    [][/\ (\E k \in DOMAIN fetches :
             fetches[k].status = "pending" /\ fetches'[k].status = "rejected")
          => dashboard' = dashboard /\ selectedPeriod' = selectedPeriod
       /\ dashboard' # dashboard =>
             \E k \in DOMAIN fetches :
                /\ fetches[k].status = "pending"
                /\ fetches'[k].status = "fulfilled"
                /\ dashboard' = DashboardOf(fetches'[k].value[1])
                /\ selectedPeriod' = selectedPeriod]_vars

\* the refresh failed while the first response's data and a selected
\* period were displayed
C29_Witness ==
    /\ Len(fetches) = 2
    /\ fetches[1].status = "fulfilled"
    /\ fetches[2].by = "interval"
    /\ fetches[2].status = "rejected"
    /\ selectedPeriod = "wtd"
    /\ dashboard = DashboardOf(fetches[1].value[1])
    /\ dashboard.mtdData # <<>>

====
